---- MODULE Spec2Model ----
(***************************************************************************)
(* Verification model of the blockmodel fitting code:                      *)
(*   - GreedyStrategy::step / optimize     (src/src/lib/optimization.cpp)  *)
(*   - the greedy tests                    (src/test/greedy_strategy_test) *)
(*   - the block-fit driver                (src/src/ui/block-fit/main.cpp) *)
(*                                                                         *)
(* Numbers.  The code works on doubles that are logarithms of ratios of    *)
(* small integers.  A value c + log(num/den) is kept exactly as the record *)
(* [c, num, den], num and den being lists of integer factors; products are *)
(* evaluated with arbitrary precision (Big).  log(0) is -infinity (a zero  *)
(* factor in num), 1 - log(0) is +infinity (a zero factor in den).         *)
(* Rounding of doubles is not modelled.                                    *)
(***************************************************************************)
EXTENDS Integers, Sequences, FiniteSets, TLC

(***************************************************************************)
(* Bounds of the model                                                     *)
(***************************************************************************)
MaxN == 5            \* largest vertex count of the arbitrary graphs
MaxK == 2            \* largest number of types of the arbitrary graphs
MaxCalls == 1        \* client calls made after optimize has returned
MaxMutated == 2      \* vertices off their clique's type when a client optimizes
MaxVcount == 9       \* block-fit: largest vertex count of the loaded graph
MaxCfg == 2          \* block-fit: type assignments of a model are 0..MaxCfg
MaxSamples == 1      \* block-fit: largest numSamples
MaxBlock == 2        \* block-fit: largest blockSize
MaxSignals == 1      \* block-fit: SIGUSR1 signals delivered outside dumpBestState
MaxAIC == 1          \* block-fit: aic and bic values are 0..MaxAIC
EndlessBlock == 1    \* block-fit: steps of one block of the endless run (1000)
LogPeriod == 2       \* block-fit: m_args.logPeriod (8192)

(***************************************************************************)
(* Arbitrary precision naturals: little-endian digits in base BigBase      *)
(***************************************************************************)
BigBase == 10000000

BigOne == <<1>>

RECURSIVE BigMulCarry(_, _, _, _)
BigMulCarry(b, s, i, carry) ==
    IF i > Len(b)
    THEN IF carry = 0 THEN <<>>
         ELSE <<carry % BigBase>> \o BigMulCarry(b, s, i, carry \div BigBase)
    ELSE LET v == b[i] * s + carry
         IN  <<v % BigBase>> \o BigMulCarry(b, s, i + 1, v \div BigBase)

\* b * s for a small natural s; zero is the empty digit list
BigMulSmall(b, s) == IF s = 0 \/ b = <<>> THEN <<>> ELSE BigMulCarry(b, s, 1, 0)

RECURSIVE BigProdFrom(_, _, _)
BigProdFrom(fs, i, acc) ==
    IF i > Len(fs) THEN acc
    ELSE IF fs[i] = 1 THEN BigProdFrom(fs, i + 1, acc)
    ELSE BigProdFrom(fs, i + 1, BigMulSmall(acc, fs[i]))

\* the product of a list of small naturals (each below 200)
BigProd(fs) == IF \E i \in 1..Len(fs) : fs[i] = 0 THEN <<>>
               ELSE BigProdFrom(fs, 1, BigOne)

BigLess(a, b) ==
    \/ Len(a) < Len(b)
    \/ /\ Len(a) = Len(b)
       /\ \E i \in 1..Len(a) :
             /\ a[i] < b[i]
             /\ \A j \in (i+1)..Len(a) : a[j] = b[j]

\* a Vector or a row of a Matrix of size k: index a of the code is At(v, a)
RECURSIVE VecFrom(_, _, _)
VecFrom(F(_), a, k) == IF a >= k THEN <<>> ELSE <<F(a)>> \o VecFrom(F, a + 1, k)

Vec(F(_), k) == VecFrom(F, 0, k)

At(v, a) == v[a + 1]

RECURSIVE Repeat(_, _)
Repeat(x, cnt) == IF cnt <= 0 THEN <<>> ELSE <<x>> \o Repeat(x, cnt - 1)

(***************************************************************************)
(* Extended reals of the form c + log(num/den)                             *)
(***************************************************************************)
LogOf(e, m) == [c |-> 0, num |-> <<e>>, den |-> <<m>>]

LogSub(x, y) == [c |-> x.c - y.c, num |-> x.num \o y.den, den |-> x.den \o y.num]

LogAdd(x, y) == [c |-> x.c + y.c, num |-> x.num \o y.num, den |-> x.den \o y.den]

RECURSIVE LogScale(_, _)
LogScale(x, cnt) == IF cnt = 0 THEN [c |-> 0, num |-> <<>>, den |-> <<>>]
                    ELSE LogAdd(x, LogScale(x, cnt - 1))

\* x < y for values with the same constant term (x.c = y.c)
LogLess(x, y) == BigLess(BigProd(x.num \o y.den), BigProd(y.num \o x.den))

LogEq(x, y) == /\ x.c = y.c
               /\ BigProd(x.num \o y.den) = BigProd(y.num \o x.den)

(***************************************************************************)
(* State                                                                   *)
(***************************************************************************)
VARIABLES
    vcount,      \* Graph: number of vertices, the vertices are 0..vcount-1
    edges,       \* Graph: set of undirected edges {u, v}
    numTypes,    \* UndirectedBlockmodel: K
    types,       \* UndirectedBlockmodel: type of every vertex
    gpc,         \* position of the client of GreedyStrategy
    before,      \* the types at the start of the latest step call
    ret,         \* what the latest step call returned ("none": no call yet)
    calls,       \* the calls that have returned: [op, ret, types]
    test,        \* greedy_strategy_test: the test function that runs
    tpc,         \* greedy_strategy_test: position in the test function
    testTypes,   \* greedy_strategy_test: the local vector "types"
    loopI,       \* greedy_strategy_test: i of the mutation loop
    startTypes,  \* the model's types when the running optimize was called
    reinstalled, \* whether setTypes(types) ran before the running optimize
    dpc,         \* block-fit: position of the main thread in run()
    args,        \* block-fit: m_args [numGroups, numSamples, initMethod, blockSize]
    groupCount,  \* block-fit: k of the candidate loop / groupCount of the fit
    m_pModel,    \* block-fit: the live model (NullModel: null pointer)
    proposalOld, \* block-fit: the live model before the running proposal
    stepCount,   \* block-fit: m_mcmc.getStepCount() modulo logPeriod
    m_bestModel, \* block-fit: best model found so far
    m_bestLogL,  \* block-fit: best log-likelihood found so far
    m_dumpBestStateFlag, \* block-fit: set by the SIGUSR1 handler
    remaining,   \* block-fit: runBlock's local numSamples
    samples,     \* block-fit: the vector runBlock fills
    rbRet,       \* block-fit: where the running runBlock returns to
    dumpRet,     \* block-fit: where the running dumpBestState returns to
    selection,   \* block-fit: run's locals [bestAIC, bestBIC, bestModel]
    output,      \* block-fit: what the model writer wrote: [model, by]
    signals,     \* history: number of SIGUSR1 signals delivered outside dumpBestState
    pending,     \* history: a dump was requested and no write has started since
    chain,       \* history: log-likelihood after every chain step since the last check
    fitted,      \* history: the candidates of the running selection: [k, aic, model]
    observed     \* history: [fit, sel, final] highest log-likelihoods seen

mvars == <<vcount, edges, numTypes, types, before, ret>>
gvars == <<gpc, calls>>
tvars == <<test, tpc, testTypes, loopI, startTypes, reinstalled>>
dvars == <<dpc, args, groupCount, m_pModel, proposalOld, stepCount, m_bestModel,
           m_bestLogL, m_dumpBestStateFlag, remaining, samples, rbRet, dumpRet,
           selection, output, signals, fitted, observed, pending, chain>>
vars == <<mvars, gvars, tvars, dvars>>

(***************************************************************************)
(* block-fit: the models the driver handles.  A model is its type count    *)
(* and its type assignment; the assignments of the loaded graph are        *)
(* numbered 0..MaxCfg.  UndirectedBlockmodel is not part of the sources:   *)
(* its log-likelihood is a level, two neighbouring assignments sharing one.*)
(***************************************************************************)
Configs == 0..MaxCfg
ModelLogL(m) == (m.types + 1) \div 2
DblMax == MaxCfg + MaxAIC + 1
NullModel == [numTypes |-> -1, types |-> 0]
DefaultModel == [numTypes |-> 0, types |-> 0]
Larger(a, b) == IF a < b THEN b ELSE a

\* the history "observed" is kept in the runs that return (numSamples > 0)
Seen(new) == IF args.numSamples > 0 THEN new ELSE observed

\* the application object after construction, before run() is entered
DriverConstructed ==
    /\ m_pModel = NullModel
    /\ proposalOld = NullModel
    /\ stepCount = 0
    /\ m_bestModel = DefaultModel
    /\ m_bestLogL = -DblMax
    /\ m_dumpBestStateFlag = FALSE
    /\ groupCount = 0
    /\ remaining = 0
    /\ samples = <<>>
    /\ rbRet = "none"
    /\ dumpRet = "none"
    /\ selection = [bestAIC |-> DblMax, bestBIC |-> DblMax, bestModel |-> DefaultModel]
    /\ output = <<>>
    /\ signals = 0
    /\ pending = FALSE
    /\ chain = <<>>
    /\ fitted = <<>>
    /\ observed = [fit |-> -DblMax, sel |-> -DblMax, final |-> -DblMax]

\* the driver does not run in the specifications of GreedyStrategy
DriverNotStarted ==
    /\ dpc = "none"
    /\ args = [numGroups |-> 0, numSamples |-> 0, initMethod |-> "none", blockSize |-> 0]
    /\ DriverConstructed

(***************************************************************************)
(* Graph                                                                   *)
(***************************************************************************)
Vertices(n) == 0..(n - 1)

\* the vertex pairs {u, v}, u < v, as an enumerated set
AllPairs(n) == {e : e \in UNION {{{u, v} : v \in (u + 1)..(n - 1)} : u \in Vertices(n)}}

\* the renumberings of the vertices
Renumberings(n) ==
    {p \in [Vertices(n) -> Vertices(n)] : \A u, v \in Vertices(n) : p[u] = p[v] => u = v}

RECURSIVE Pow2(_)
Pow2(x) == IF x = 0 THEN 1 ELSE 2 * Pow2(x - 1)

\* an edge set as a number: one bit per vertex pair
RECURSIVE EdgeCode(_, _)
EdgeCode(es, n) ==
    IF es = {} THEN 0
    ELSE LET e == CHOOSE x \in es : TRUE
             u == CHOOSE x \in e : \A y \in e : x <= y
             v == CHOOSE x \in e : \A y \in e : x >= y
         IN  Pow2(u * n + v) + EdgeCode(es \ {e}, n)

\* one graph of every isomorphism class: the numbering of least code.  The
\* sweep of step treats every vertex alike, so a renumbering of the vertices
\* (of the graph and of the assignment) renumbers its result.
Canonical(es, n) ==
    \A p \in Renumberings(n) :
        EdgeCode(es, n) <= EdgeCode({{p[v] : v \in e} : e \in es}, n)

\* Graph::neighbors(i)
neighbors(es, n, i) == {j \in Vertices(n) : {i, j} \in es}

(***************************************************************************)
(* UndirectedBlockmodel: derived state of a type assignment                *)
(***************************************************************************)
TypeCount(n, ty, a) == Cardinality({v \in Vertices(n) : ty[v] = a})

\* observed edges between block a and block b
EdgeCount(es, ty, a, b) == Cardinality({e \in es : {ty[v] : v \in e} = {a, b}})

\* vertex pairs spanning block a and block b (no self-pairs on the diagonal)
PossiblePairs(n, ty, a, b) ==
    IF a = b THEN (TypeCount(n, ty, a) * (TypeCount(n, ty, a) - 1)) \div 2
    ELSE TypeCount(n, ty, a) * TypeCount(n, ty, b)

\* getProbabilities(): entry (a, b) as the fraction <<edges, pairs>>; a block
\* pair with no possible edge has probability 0
getProbabilities(n, es, k, ty) ==
    Vec(LAMBDA a : Vec(LAMBDA b :
        IF PossiblePairs(n, ty, a, b) = 0 THEN <<0, 1>>
        ELSE <<EdgeCount(es, ty, a, b), PossiblePairs(n, ty, a, b)>>, k), k)

\* the block pairs a <= b as a sequence
RECURSIVE BlockPairs(_, _, _)
BlockPairs(k, a, b) ==
    IF a >= k THEN <<>>
    ELSE IF b >= k THEN BlockPairs(k, a + 1, a + 1)
    ELSE <<<<a, b>>>> \o BlockPairs(k, a, b + 1)

\* one block pair's Bernoulli term e*log(e/m) + (m-e)*log((m-e)/m), with
\* 0*log(0) = 0: empty and saturated pairs contribute nothing singular
PairLogL(e, m) ==
    [c |-> 0, num |-> Repeat(e, e) \o Repeat(m - e, m - e), den |-> Repeat(m, m)]

RECURSIVE SumLogL(_, _, _, _)
SumLogL(n, es, ty, ps) ==
    IF ps = <<>> THEN [c |-> 0, num |-> <<>>, den |-> <<>>]
    ELSE LogAdd(PairLogL(EdgeCount(es, ty, Head(ps)[1], Head(ps)[2]),
                         PossiblePairs(n, ty, Head(ps)[1], Head(ps)[2])),
                SumLogL(n, es, ty, Tail(ps)))

\* getLogLikelihood()
getLogLikelihood(n, es, k, ty) == SumLogL(n, es, ty, BlockPairs(k, 0, 0))

(***************************************************************************)
(* GreedyStrategy::step                                                    *)
(***************************************************************************)
\* log_1_minus_x(x) returns 1.0 - log(x), for x = e/m
log_1_minus_x(e, m) == [c |-> 1, num |-> <<m>>, den |-> <<e>>]

\* logP after "logP -= log1P": log(P) - log_1_minus_x(P), entry by entry
LogOdds(P, k) ==
    Vec(LAMBDA a : Vec(LAMBDA b :
        LogSub(LogOf(At(At(P, a), b)[1], At(At(P, a), b)[2]),
               log_1_minus_x(At(At(P, a), b)[1], At(At(P, a), b)[2])), k), k)

\* a sweep that reads the types already chosen in this sweep
getTypeSequential(ty, newTypes, i, j) == IF j < i THEN newTypes[j] ELSE ty[j]

\* model.getType(j) as read while vertex i is scored: the model is not
\* touched before the sweep is over, the buffer newTypes is not read
getType(ty, newTypes, i, j) == ty[j]

\* neiCountByType of vertex i
NeiCountByType(n, es, k, ty, newTypes, i) ==
    Vec(LAMBDA b :
        Cardinality({j \in neighbors(es, n, i) : getType(ty, newTypes, i, j) = b}), k)

\* row a of logP * neiCountByType.  The product is BLAS dgemv, which skips
\* the columns b whose x[b] is zero
RECURSIVE RowTimesVector(_, _, _, _)
RowTimesVector(row, x, k, b) ==
    IF b >= k THEN [c |-> 0, num |-> <<>>, den |-> <<>>]
    ELSE IF At(x, b) = 0 THEN RowTimesVector(row, x, k, b + 1)
    ELSE LogAdd(LogScale(At(row, b), At(x, b)), RowTimesVector(row, x, k, b + 1))

MatrixTimesVector(M, x, k) == Vec(LAMBDA a : RowTimesVector(At(M, a), x, k, 0), k)

\* the first of the smallest elements
RECURSIVE MinElementFrom(_, _, _, _)
MinElementFrom(v, k, a, smallest) ==
    IF a >= k THEN smallest
    ELSE IF LogLess(At(v, a), At(v, smallest)) THEN MinElementFrom(v, k, a + 1, a)
    ELSE MinElementFrom(v, k, a + 1, smallest)

min_element(v, k) == MinElementFrom(v, k, 1, 0)

\* a scan that keeps the last of the largest elements
RECURSIVE MaxElementFromLast(_, _, _, _)
MaxElementFromLast(v, k, a, largest) ==
    IF a >= k THEN largest
    ELSE IF LogLess(At(v, a), At(v, largest)) THEN MaxElementFromLast(v, k, a + 1, largest)
    ELSE MaxElementFromLast(v, k, a + 1, a)

\* std::max_element(first, last) - first: the first of the largest elements
RECURSIVE MaxElementFrom(_, _, _, _)
MaxElementFrom(v, k, a, largest) ==
    IF a >= k THEN largest
    ELSE IF LogLess(At(v, largest), At(v, a)) THEN MaxElementFrom(v, k, a + 1, a)
    ELSE MaxElementFrom(v, k, a + 1, largest)

max_element(v, k) == MaxElementFrom(v, k, 1, 0)

\* the body of "for (i = 0; i < n; i++)": newTypes[i]
RECURSIVE StepLoop(_, _, _, _, _, _, _)
StepLoop(n, es, k, ty, logP, i, newTypes) ==
    IF i >= n THEN newTypes
    ELSE StepLoop(n, es, k, ty, logP, i + 1,
            [newTypes EXCEPT ![i] =
                max_element(MatrixTimesVector(logP,
                    NeiCountByType(n, es, k, ty, newTypes, i), k), k)])

\* newTypes at the end of the loop; Vector newTypes(n) starts as zeros
NewTypes(n, es, k, ty) ==
    StepLoop(n, es, k, ty, LogOdds(getProbabilities(n, es, k, ty), k), 0,
             [v \in Vertices(n) |-> 0])

\* a step that installs newTypes before it compares them with the model
StepOutcomeSetFirst(newTypes, ty) == [types |-> newTypes, ret |-> FALSE]

\* "if (newTypes != model.getTypes()) { model.setTypes(newTypes); return true; }
\*  return false;": the model after the call and the value returned
StepOutcome(newTypes, ty) ==
    IF newTypes # ty THEN [types |-> newTypes, ret |-> TRUE]
    ELSE [types |-> ty, ret |-> FALSE]

step(n, es, k, ty) == StepOutcome(NewTypes(n, es, k, ty), ty)

(***************************************************************************)
(* A client of GreedyStrategy on an arbitrary graph and assignment         *)
(***************************************************************************)
InitGreedy ==
    /\ vcount \in 1..MaxN
    /\ edges \in {es \in SUBSET AllPairs(vcount) : Canonical(es, vcount)}
    /\ numTypes \in 1..MaxK
    /\ types \in [Vertices(vcount) -> 0..(numTypes - 1)]
    /\ gpc = "optimize"
    /\ before = types
    /\ ret = "none"
    /\ calls = <<>>
    /\ test = "none" /\ tpc = "none" /\ testTypes = <<>> /\ loopI = 0
    /\ startTypes = <<>> /\ reinstalled = FALSE
    /\ DriverNotStarted

\* one iteration of "while (step(model));" in optimize
OptimizeStep ==
    /\ gpc = "optimize"
    /\ \E r \in {step(vcount, edges, numTypes, types)} :
           /\ types' = r.types
           /\ before' = types
           /\ ret' = IF r.ret THEN "true" ELSE "false"
           /\ gpc' = IF r.ret THEN "optimize" ELSE "idle"
           /\ calls' = IF r.ret THEN calls
                       ELSE Append(calls, [op |-> "optimize", ret |-> FALSE,
                                           types |-> r.types])
    /\ UNCHANGED <<dvars, vcount, edges, numTypes, tvars>>

\* the client calls step once
CallStep ==
    /\ gpc = "idle"
    /\ Len(calls) <= MaxCalls
    /\ \E r \in {step(vcount, edges, numTypes, types)} :
           /\ types' = r.types
           /\ before' = types
           /\ ret' = IF r.ret THEN "true" ELSE "false"
           /\ calls' = Append(calls, [op |-> "step", ret |-> r.ret,
                                      types |-> r.types])
    /\ UNCHANGED <<dvars, vcount, edges, numTypes, gpc, tvars>>

\* the client calls optimize again
CallOptimize ==
    /\ gpc = "idle"
    /\ Len(calls) <= MaxCalls
    /\ gpc' = "optimize"
    /\ UNCHANGED <<dvars, mvars, calls, tvars>>

NextGreedy == OptimizeStep \/ CallStep \/ CallOptimize

SpecGreedy == InitGreedy /\ [][NextGreedy]_vars

\* the thread that runs optimize goes on: the loop calls step once more, which
\* changes the types and returns true, or leaves them and returns false
OptimizeRuns ==
    /\ gpc = "optimize"
    /\ gpc' \in {"optimize", "idle"}
    /\ types' \in [Vertices(vcount) -> 0..(numTypes - 1)]

\* optimize is sequential code that nothing blocks: a running optimize is not
\* left waiting forever before its next iteration
SpecGreedyFair ==
    InitGreedy /\ [][NextGreedy]_vars /\ WF_<<gpc, types>>(OptimizeRuns)

(***************************************************************************)
(* greedy_strategy_test.cpp: test_two_rings and test_four_almost_cliques   *)
(***************************************************************************)
RingSize == 5
CliqueSize == 4
NumCliques == 4

\* *ring(5) + *ring(5)
TwoRings ==
    {{r * RingSize + i, r * RingSize + ((i + 1) % RingSize)} :
        r \in 0..1, i \in 0..(RingSize - 1)}

\* *full(4) + *full(4) + *full(4) + *full(4)
FourCliques ==
    {{c * CliqueSize + e[1], c * CliqueSize + e[2]} :
        c \in 0..(NumCliques - 1),
        e \in {<<u, v>> : u \in 0..(CliqueSize - 1), v \in 0..(CliqueSize - 1)}}

\* the pairs of "edges" handed to graph.deleteEdges
DeletedEdges == {{0, 1}, {5, 6}, {10, 11}, {15, 12}}

FourAlmostCliques == {e : e \in {x \in FourCliques \ DeletedEdges : Cardinality(x) = 2}}

\* the state when the first optimize is called: the graph is built and
\* model.setTypes(types) has installed types[i] = i / 5, or i / 4
InitTests ==
    /\ test \in {"two_rings", "four_almost_cliques"}
    /\ vcount = IF test = "two_rings" THEN 2 * RingSize ELSE NumCliques * CliqueSize
    /\ edges = IF test = "two_rings" THEN TwoRings ELSE FourAlmostCliques
    /\ numTypes = IF test = "two_rings" THEN 2 ELSE NumCliques
    /\ testTypes = [i \in Vertices(vcount) |->
                       IF test = "two_rings" THEN i \div RingSize ELSE i \div CliqueSize]
    /\ types = testTypes
    /\ before = types
    /\ ret = "none"
    /\ tpc = "optimize1"
    /\ loopI = 0
    /\ startTypes = types
    /\ reinstalled = TRUE
    /\ gpc = "none" /\ calls = <<>>
    /\ DriverNotStarted

\* one iteration of "while (step(model));" of greedy.optimize(&model)
TestOptimizeStep ==
    /\ tpc \in {"optimize1", "optimize2"}
    /\ \E r \in {step(vcount, edges, numTypes, types)} :
           /\ types' = r.types
           /\ before' = types
           /\ ret' = IF r.ret THEN "true" ELSE "false"
           /\ tpc' = IF r.ret THEN tpc
                     ELSE IF tpc = "optimize1" THEN "check1" ELSE "check2"
    /\ UNCHANGED <<dvars, vcount, edges, numTypes, test, testTypes, loopI, startTypes,
                   reinstalled, gvars>>

\* "if (model.getTypes() != types) return 1;" and "... return 2; return 0;"
TestCheck ==
    /\ tpc \in {"check1", "check2"}
    /\ tpc' = IF types # testTypes
              THEN (IF tpc = "check1" THEN "return1" ELSE "return2")
              ELSE (IF tpc = "check1" THEN "mutate" ELSE "return0")
    /\ UNCHANGED <<dvars, mvars, test, testTypes, loopI, startTypes, reinstalled, gvars>>

\* test_two_rings: model.setType(0, 1) moves one vertex to the other block and
\* optimize is called; here any vertex v takes the place of vertex 0
TestSetType ==
    /\ tpc = "mutate"
    /\ test = "two_rings"
    /\ \E v \in Vertices(vcount) :
           types' = [types EXCEPT ![v] = 1 - types[v]]
    /\ startTypes' = types'
    /\ reinstalled' = FALSE
    /\ tpc' = "optimize2"
    /\ UNCHANGED <<dvars, vcount, edges, numTypes, before, ret, test, testTypes, loopI,
                   gvars>>

\* test_four_almost_cliques: one iteration of
\* "for (i...) model.setType(i*4 + rand() % 4, rand() % 4);"
TestMutate ==
    /\ tpc = "mutate"
    /\ test = "four_almost_cliques"
    /\ loopI < NumCliques
    /\ \E r1 \in 0..(CliqueSize - 1), r2 \in 0..(NumCliques - 1) :
           types' = [types EXCEPT ![loopI * CliqueSize + r1] = r2]
    /\ loopI' = loopI + 1
    /\ tpc' = IF loopI' < NumCliques THEN "mutate" ELSE "mutated"
    /\ UNCHANGED <<dvars, vcount, edges, numTypes, before, ret, test, testTypes,
                   startTypes, reinstalled, gvars>>

\* test_four_almost_cliques: "model.setTypes(types);" after the loop, then
\* optimize is called
TestSetTypes ==
    /\ tpc = "mutated"
    /\ types' = testTypes
    /\ startTypes' = types'
    /\ reinstalled' = TRUE
    /\ tpc' = "optimize2"
    /\ UNCHANGED <<dvars, vcount, edges, numTypes, before, ret, test, testTypes, loopI,
                   gvars>>

\* the vertices whose type is not the one the test installed
Mutated(ty) == {v \in Vertices(vcount) : ty[v] # testTypes[v]}

\* a client that calls GreedyStrategy::optimize on the mutated model as it is
OptimizeMutated ==
    /\ tpc = "mutated"
    /\ Cardinality(Mutated(types)) <= MaxMutated
    /\ startTypes' = types
    /\ reinstalled' = FALSE
    /\ tpc' = "optimize2"
    /\ UNCHANGED <<dvars, mvars, test, testTypes, loopI, gvars>>

NextTests ==
    \/ TestOptimizeStep \/ TestCheck \/ TestSetType \/ TestMutate
    \/ TestSetTypes \/ OptimizeMutated

SpecTests == InitTests /\ [][NextTests]_vars

(***************************************************************************)
(* block-fit/main.cpp: BlockmodelFittingApp::run and what it calls         *)
(***************************************************************************)
\* With a given group count the vertex count is never read: one graph
\* stands for all.
InitDriver ==
    /\ vcount \in 0..MaxVcount
    /\ edges = {} /\ numTypes = 0 /\ types = <<>> /\ before = <<>> /\ ret = "none"
    /\ gpc = "none" /\ calls = <<>>
    /\ test = "none" /\ tpc = "none" /\ testTypes = <<>> /\ loopI = 0
    /\ startTypes = <<>> /\ reinstalled = FALSE
    /\ dpc = "run"
    /\ args \in [numGroups : {-1, MaxK}, numSamples : (-1)..MaxSamples,
                 initMethod : {"GREEDY", "RANDOM"}, blockSize : 1..MaxBlock]
    /\ args.numGroups > 0 => vcount = MaxVcount
    /\ DriverConstructed

\* run, lines 226-236: a given group count, or the start of the candidate loop
RunStart ==
    /\ dpc = "run"
    /\ IF args.numGroups > 0
       THEN /\ groupCount' = args.numGroups
            /\ dpc' = "fit"
       ELSE /\ groupCount' = 2
            /\ dpc' = "for_k"
    /\ selection' = [bestAIC |-> DblMax, bestBIC |-> DblMax, bestModel |-> DefaultModel]
    /\ UNCHANGED <<mvars, gvars, tvars, pending, chain, args, m_pModel, proposalOld, stepCount,
                   m_bestModel, m_bestLogL, m_dumpBestStateFlag, remaining, samples,
                   rbRet, dumpRet, output, signals, fitted, observed>>

\* run, line 236: for (int k = 2; k <= sqrt(vcount); k++)
ForK ==
    /\ dpc = "for_k"
    /\ dpc' = IF groupCount * groupCount <= vcount THEN "fit" ELSE "install"
    /\ UNCHANGED <<mvars, gvars, tvars, pending, chain, args, groupCount, m_pModel, proposalOld,
                   stepCount, m_bestModel, m_bestLogL, m_dumpBestStateFlag, remaining,
                   samples, rbRet, dumpRet, selection, output, signals, fitted, observed>>

\* fitForGivenGroupCount, lines 72-78: a new randomized model
FitStart ==
    /\ dpc = "fit"
    /\ \E c \in Configs : m_pModel' = [numTypes |-> groupCount, types |-> c]
    /\ samples' = Repeat(0, args.blockSize)
    /\ dpc' = IF args.initMethod = "GREEDY" THEN "greedy" ELSE "fit_best"
    /\ observed' = Seen([observed EXCEPT !.fit = -DblMax])
    /\ UNCHANGED <<mvars, gvars, tvars, pending, chain, args, groupCount, proposalOld, stepCount,
                   m_bestModel, m_bestLogL, m_dumpBestStateFlag, remaining, rbRet,
                   dumpRet, selection, output, signals, fitted>>

\* fitForGivenGroupCount, lines 84-91: while (greedy.step()) { logL = ... }
\* A step that returns true has changed the types, towards a higher or a
\* lower log-likelihood.
GreedyInitStep ==
    /\ dpc = "greedy"
    /\ \/ \E c \in Configs \ {m_pModel.types} :
             /\ m_pModel' = [m_pModel EXCEPT !.types = c]
             /\ observed' = Seen([observed EXCEPT
                                    !.fit = Larger(@, ModelLogL(m_pModel'))])
             /\ dpc' = "greedy"
       \/ /\ dpc' = "fit_best"
          /\ UNCHANGED <<m_pModel, observed>>
    /\ UNCHANGED <<mvars, gvars, tvars, pending, chain, args, groupCount, proposalOld, stepCount,
                   m_bestModel, m_bestLogL, m_dumpBestStateFlag, remaining, samples,
                   rbRet, dumpRet, selection, output, signals, fitted>>

\* fitForGivenGroupCount, lines 94-103: the best model starts as the live
\* model, and the first block is run
FitSetBest ==
    /\ dpc = "fit_best"
    /\ m_bestModel' = m_pModel
    /\ m_bestLogL' = ModelLogL(m_pModel)
    /\ observed' = Seen([observed EXCEPT !.fit = Larger(@, ModelLogL(m_pModel))])
    /\ remaining' = args.blockSize
    /\ rbRet' = "conv_check"
    /\ chain' = <<>>
    /\ dpc' = "rb_enter"
    /\ UNCHANGED <<mvars, gvars, tvars, pending, args, groupCount, m_pModel, proposalOld,
                   stepCount, m_dumpBestStateFlag, samples, dumpRet, selection,
                   output, signals, fitted>>

\* a clear that keeps the elements
NotCleared(v) == v

\* Vector::clear (igraph_vector_clear): the vector has no elements
Cleared(v) == <<>>

\* runBlock, line 165: samples.clear()
RunBlockEnter ==
    /\ dpc = "rb_enter"
    /\ samples' = Cleared(samples)
    /\ dpc' = "rb_loop"
    /\ UNCHANGED <<mvars, gvars, tvars, pending, chain, args, groupCount, m_pModel, proposalOld,
                   stepCount, m_bestModel, m_bestLogL, m_dumpBestStateFlag, remaining,
                   rbRet, dumpRet, selection, output, signals, fitted, observed>>

\* runBlock, line 166: while (numSamples > 0); the return goes to the caller
RunBlockLoop ==
    /\ dpc = "rb_loop"
    /\ dpc' = IF remaining > 0 THEN "mcmc_propose" ELSE rbRet
    /\ UNCHANGED <<mvars, gvars, tvars, pending, chain, args, groupCount, m_pModel, proposalOld,
                   stepCount, m_bestModel, m_bestLogL, m_dumpBestStateFlag, remaining,
                   samples, rbRet, dumpRet, selection, output, signals, fitted, observed>>

\* runBlock, line 167, m_mcmc.step(), first half: one vertex of the live
\* model is given another type
McmcPropose ==
    /\ dpc = "mcmc_propose"
    /\ proposalOld' = m_pModel
    /\ \E c \in Configs \ {m_pModel.types} : m_pModel' = [m_pModel EXCEPT !.types = c]
    /\ dpc' = "mcmc_decide"
    /\ UNCHANGED <<mvars, gvars, tvars, pending, chain, args, groupCount, stepCount, m_bestModel,
                   m_bestLogL, m_dumpBestStateFlag, remaining, samples, rbRet, dumpRet,
                   selection, output, signals, fitted, observed>>

\* runBlock, line 167, m_mcmc.step(), second half: the proposal is accepted,
\* or rejected and the type restored; the step is counted
McmcDecide ==
    /\ dpc = "mcmc_decide"
    /\ \/ m_pModel' = m_pModel
       \/ m_pModel' = proposalOld
    /\ stepCount' = (stepCount + 1) % LogPeriod
    /\ chain' = IF rbRet = "conv_check" THEN Append(chain, ModelLogL(m_pModel'))
                 ELSE chain
    /\ dpc' = "rb_best"
    /\ UNCHANGED <<mvars, gvars, tvars, pending, args, groupCount, proposalOld, m_bestModel,
                   m_bestLogL, m_dumpBestStateFlag, remaining, samples, rbRet, dumpRet,
                   selection, output, signals, fitted, observed>>

\* runBlock, line 170: if (m_bestLogL < logL)
IsBetterOrEqual(best, logL) == best <= logL
IsBetter(best, logL) == best < logL

\* runBlock, lines 169-184: the best model follows a strictly higher
\* log-likelihood, and the log-likelihood is sampled
TrackBest ==
    /\ dpc = "rb_best"
    /\ IF IsBetter(m_bestLogL, ModelLogL(m_pModel))
       THEN /\ m_bestModel' = m_pModel
            /\ m_bestLogL' = ModelLogL(m_pModel)
       ELSE UNCHANGED <<m_bestModel, m_bestLogL>>
    /\ samples' = Append(samples, ModelLogL(m_pModel))
    /\ observed' = IF rbRet = "conv_check"
                   THEN Seen([observed EXCEPT !.fit = Larger(@, ModelLogL(m_pModel))])
                   ELSE IF rbRet = "final_dump"
                   THEN [observed EXCEPT !.final = Larger(@, ModelLogL(m_pModel))]
                   ELSE observed
    /\ dpc' = "rb_check"
    /\ UNCHANGED <<mvars, gvars, tvars, pending, chain, args, groupCount, m_pModel, proposalOld,
                   stepCount, m_dumpBestStateFlag, remaining, rbRet, dumpRet, selection,
                   output, signals, fitted>>

\* runBlock, lines 186-187: if (m_dumpBestStateFlag) dumpBestState()
RunBlockCheckFlag ==
    /\ dpc = "rb_check"
    /\ IF m_dumpBestStateFlag
       THEN /\ dumpRet' = "rb_dec"
            /\ dpc' = "dump_write"
       ELSE /\ dpc' = "rb_dec"
            /\ UNCHANGED dumpRet
    /\ UNCHANGED <<mvars, gvars, tvars, pending, chain, args, groupCount, m_pModel, proposalOld,
                   stepCount, m_bestModel, m_bestLogL, m_dumpBestStateFlag, remaining,
                   samples, rbRet, selection, output, signals, fitted, observed>>

\* dumpBestState, line 63: m_pModelWriter->write(m_bestModel, cout)
WrittenLive(live, best) == live
Written(live, best) == best

\* dumpBestState, lines 61-66: the writer (set up by run) writes m_bestModel
DumpWrite ==
    /\ dpc = "dump_write"
    /\ output' = Append(output, [model |-> Written(m_pModel, m_bestModel),
                                 by |-> dumpRet])
    /\ pending' = FALSE
    /\ dpc' = "dump_clear"
    /\ UNCHANGED <<mvars, gvars, tvars, chain, args, groupCount, m_pModel, proposalOld,
                   stepCount, m_bestModel, m_bestLogL, m_dumpBestStateFlag, remaining,
                   samples, rbRet, dumpRet, selection, signals, fitted, observed>>

\* dumpBestState, line 67: m_dumpBestStateFlag = false, and the return
DumpClear ==
    /\ dpc = "dump_clear"
    /\ m_dumpBestStateFlag' = FALSE
    /\ dpc' = dumpRet
    /\ UNCHANGED <<mvars, gvars, tvars, pending, chain, args, groupCount, m_pModel, proposalOld,
                   stepCount, m_bestModel, m_bestLogL, remaining, samples, rbRet,
                   dumpRet, selection, output, signals, fitted, observed>>

\* runBlock, line 189: numSamples--
RunBlockDec ==
    /\ dpc = "rb_dec"
    /\ remaining' = remaining - 1
    /\ dpc' = "rb_loop"
    /\ UNCHANGED <<mvars, gvars, tvars, pending, chain, args, groupCount, m_pModel, proposalOld,
                   stepCount, m_bestModel, m_bestLogL, m_dumpBestStateFlag, samples,
                   rbRet, dumpRet, selection, output, signals, fitted, observed>>

\* raiseDumpBestStateFlag, called by handleSIGUSR1 at any moment of the run
RaiseDumpBestStateFlag ==
    /\ dpc \notin {"none", "returned", "crashed"}
    /\ IF dpc \in {"dump_write", "dump_clear"}
       THEN /\ ~pending
            /\ UNCHANGED signals
       ELSE /\ signals < MaxSignals
            /\ signals' = signals + 1
    /\ m_dumpBestStateFlag' = TRUE
    /\ pending' = TRUE
    /\ UNCHANGED <<mvars, gvars, tvars, chain, dpc, args, groupCount, m_pModel, proposalOld,
                   stepCount, m_bestModel, m_bestLogL, remaining, samples, rbRet,
                   dumpRet, selection, output, fitted, observed>>

\* ConvergenceCriterion::check (not part of the sources): a block of
\* identical samples is converged, any other block may or may not be
check(block) ==
    IF \A i, j \in DOMAIN block : block[i] = block[j] THEN {TRUE} ELSE {TRUE, FALSE}

\* fitForGivenGroupCount, lines 102-109: while (!converged) runBlock(...);
\* and the return to run, lines 228-229 or 239
ConvCheck ==
    /\ dpc = "conv_check"
    /\ \E converged \in check(samples) :
          IF converged
          THEN /\ dpc' = IF args.numGroups > 0 THEN "sampling" ELSE "eval"
               /\ UNCHANGED remaining
          ELSE /\ dpc' = "rb_enter"
               /\ remaining' = args.blockSize
    /\ chain' = <<>>
    /\ observed' = IF args.numGroups > 0
                   THEN Seen([observed EXCEPT !.sel = observed.fit])
                   ELSE observed
    /\ UNCHANGED <<mvars, gvars, tvars, pending, args, groupCount, m_pModel, proposalOld,
                   stepCount, m_bestModel, m_bestLogL, m_dumpBestStateFlag, samples,
                   rbRet, dumpRet, selection, output, signals, fitted>>

\* aic and bic (not part of the sources): any value for a fitted model
aic(m) == 0..MaxAIC
bic(m) == 0..MaxAIC

\* run, lines 239-250: the candidate's best model is kept on a lower AIC
EvalCandidate ==
    /\ dpc = "eval"
    /\ \E currentAIC \in aic(m_bestModel), currentBIC \in bic(m_bestModel) :
          /\ selection' =
                [bestAIC |-> IF currentAIC < selection.bestAIC
                             THEN currentAIC ELSE selection.bestAIC,
                 bestModel |-> IF currentAIC < selection.bestAIC
                               THEN m_bestModel ELSE selection.bestModel,
                 bestBIC |-> IF currentBIC < selection.bestBIC
                             THEN currentBIC ELSE selection.bestBIC]
          /\ fitted' = Append(fitted, [k |-> groupCount, aic |-> currentAIC,
                                       model |-> m_bestModel])
          /\ observed' = IF currentAIC < selection.bestAIC
                         THEN Seen([observed EXCEPT !.sel = observed.fit])
                         ELSE observed
    /\ groupCount' = groupCount + 1
    /\ dpc' = "for_k"
    /\ UNCHANGED <<mvars, gvars, tvars, pending, chain, args, m_pModel, proposalOld, stepCount,
                   m_bestModel, m_bestLogL, m_dumpBestStateFlag, remaining, samples,
                   rbRet, dumpRet, output, signals>>

\* run, lines 252-256: the selected model becomes the live and the best
\* model, and the locals of the selection go out of scope.  Without a
\* fitted candidate m_pModel is null: "*m_pModel = ..." is undefined, the
\* process crashes or goes on with arbitrary values.
InstallBest ==
    /\ dpc = "install"
    /\ IF m_pModel = NullModel
       THEN \/ /\ dpc' = "crashed"
               /\ UNCHANGED <<m_pModel, m_bestModel, m_bestLogL>>
            \/ /\ dpc' = "sampling"
               /\ m_pModel' \in [numTypes : {0}, types : Configs]
               /\ m_bestModel' = selection.bestModel
               /\ m_bestLogL' = ModelLogL(m_pModel')
       ELSE /\ dpc' = "sampling"
            /\ m_pModel' = selection.bestModel
            /\ m_bestModel' = selection.bestModel
            /\ m_bestLogL' = ModelLogL(selection.bestModel)
    /\ selection' = [bestAIC |-> DblMax, bestBIC |-> DblMax, bestModel |-> DefaultModel]
    /\ fitted' = <<>>
    /\ UNCHANGED <<mvars, gvars, tvars, pending, chain, args, groupCount, proposalOld, stepCount,
                   m_dumpBestStateFlag, remaining, samples, rbRet, dumpRet,
                   output, signals, observed>>

\* run, line 259: if (m_args.numSamples > 0)
FiniteSamplingOrNone(numSamples) == numSamples >= 0
FiniteSampling(numSamples) == numSamples > 0

\* run, lines 259-273: a finite sampling run, or the endless one
StartSampling ==
    /\ dpc = "sampling"
    /\ IF FiniteSampling(args.numSamples)
       THEN /\ remaining' = args.numSamples
            /\ rbRet' = "final_dump"
       ELSE /\ remaining' = EndlessBlock
            /\ rbRet' = "endless"
    /\ samples' = <<>>
    /\ dpc' = "rb_enter"
    /\ UNCHANGED <<mvars, gvars, tvars, pending, chain, args, groupCount, m_pModel, proposalOld,
                   stepCount, m_bestModel, m_bestLogL, m_dumpBestStateFlag, dumpRet,
                   selection, output, signals, fitted, observed>>

\* runUntilHellFreezesOver, lines 197-198: while (1) runBlock(1000, dummy)
RunUntilHellFreezesOver ==
    /\ dpc = "endless"
    /\ remaining' = EndlessBlock
    /\ dpc' = "rb_enter"
    /\ UNCHANGED <<mvars, gvars, tvars, pending, chain, args, groupCount, m_pModel, proposalOld,
                   stepCount, m_bestModel, m_bestLogL, m_dumpBestStateFlag, samples,
                   rbRet, dumpRet, selection, output, signals, fitted, observed>>

\* run, line 276: dumpBestState()
FinalDump ==
    /\ dpc = "final_dump"
    /\ dumpRet' = "return"
    /\ dpc' = "dump_write"
    /\ UNCHANGED <<mvars, gvars, tvars, pending, chain, args, groupCount, m_pModel, proposalOld,
                   stepCount, m_bestModel, m_bestLogL, m_dumpBestStateFlag, remaining,
                   samples, rbRet, selection, output, signals, fitted, observed>>

\* run, line 277: return 0
Return ==
    /\ dpc = "return"
    /\ dpc' = "returned"
    /\ UNCHANGED <<mvars, gvars, tvars, pending, chain, args, groupCount, m_pModel, proposalOld,
                   stepCount, m_bestModel, m_bestLogL, m_dumpBestStateFlag, remaining,
                   samples, rbRet, dumpRet, selection, output, signals, fitted, observed>>

\* the steps of the main thread
MainThread ==
    \/ RunStart \/ ForK \/ FitStart \/ GreedyInitStep \/ FitSetBest
    \/ RunBlockEnter \/ RunBlockLoop \/ McmcPropose \/ McmcDecide \/ TrackBest
    \/ RunBlockCheckFlag \/ DumpWrite \/ DumpClear \/ RunBlockDec
    \/ ConvCheck \/ EvalCandidate \/ InstallBest \/ StartSampling
    \/ RunUntilHellFreezesOver \/ FinalDump \/ Return

NextDriver ==
    \/ RunStart \/ ForK \/ FitStart \/ GreedyInitStep \/ FitSetBest
    \/ RunBlockEnter \/ RunBlockLoop \/ McmcPropose \/ McmcDecide \/ TrackBest
    \/ RunBlockCheckFlag \/ DumpWrite \/ DumpClear \/ RunBlockDec
    \/ ConvCheck \/ EvalCandidate \/ InstallBest \/ StartSampling
    \/ RunUntilHellFreezesOver \/ FinalDump \/ Return
    \/ RaiseDumpBestStateFlag

\* The main thread is never suspended for ever: it takes its next step.
SpecDriver == InitDriver /\ [][NextDriver]_vars /\ WF_vars(MainThread)

(***************************************************************************)
(* Claims about the block-fit driver (SpecDriver)                          *)
(***************************************************************************)
\* the state of the chain and of the best-model tracking
ChainState == <<m_pModel, proposalOld, stepCount, m_bestModel, m_bestLogL,
                remaining, samples>>

\* C5 as stated: over the whole run m_bestLogL never decreases, and the
\* best-model snapshot, once there is one, is replaced only by a chain step
\* that gave a log-likelihood strictly higher than m_bestLogL.
C5_BestLogLNeverDecreases ==
    [][/\ m_bestLogL' >= m_bestLogL
       /\ (m_bestModel' # m_bestModel /\ m_bestLogL # -DblMax) =>
             /\ dpc = "rb_best"
             /\ m_bestLogL < ModelLogL(m_pModel)]_vars

\* C5, amended: between the resets (fitForGivenGroupCount lines 94-95 at the
\* start of every fit, run lines 253-254 after the selection, which install
\* the model at hand whatever its log-likelihood) m_bestLogL never
\* decreases, and the best model and m_bestLogL change only in runBlock, to
\* the live model and its log-likelihood, when that is strictly higher.
C5_BestLogLWithinChainRun ==
    [][dpc \notin {"fit_best", "install"} =>
          /\ m_bestLogL' >= m_bestLogL
          /\ (m_bestModel' # m_bestModel \/ m_bestLogL' # m_bestLogL) =>
                /\ dpc = "rb_best"
                /\ m_bestLogL < ModelLogL(m_pModel)
                /\ m_bestModel' = m_pModel
                /\ m_bestLogL' = ModelLogL(m_pModel)]_vars

\* the first chain step of the first fit (the best model was the model the
\* proposal started from) has replaced the best model by a better one
C5_Witness ==
    /\ rbRet = "conv_check"
    /\ dpc = "rb_check"
    /\ fitted = <<>>
    /\ args.blockSize = 1
    /\ m_bestModel = m_pModel
    /\ ModelLogL(proposalOld) < m_bestLogL

\* C6: the dump flag is acted on only at line 186 of runBlock, which is
\* reached only from the best-model update that follows a completed chain
\* step; the dump writes the best model, then clears the flag and returns
\* to runBlock, and neither changes the chain, the step counter, the best
\* model or the samples.
C6_DumpAtSafePoint ==
    [][/\ (dpc' = "dump_write" /\ dpc # "dump_write" /\ dumpRet' = "rb_dec") =>
             dpc = "rb_check" /\ m_dumpBestStateFlag
       /\ (dpc' = "rb_check" /\ dpc # "rb_check") => dpc = "rb_best"
       /\ (dpc' = "rb_best" /\ dpc # "rb_best") => dpc = "mcmc_decide"
       /\ output' # output =>
             /\ dpc = "dump_write"
             /\ output' = Append(output, [model |-> m_bestModel, by |-> dumpRet])
             /\ UNCHANGED ChainState
       /\ (dpc = "dump_clear" /\ dpc' # "dump_clear") =>
             /\ ~m_dumpBestStateFlag'
             /\ dpc' = dumpRet
             /\ UNCHANGED ChainState]_vars

\* a requested dump has written a best model that differs from the live
\* model, and runBlock goes on
C6_Witness ==
    /\ dpc = "rb_dec"
    /\ output # <<>>
    /\ output[Len(output)] = [model |-> m_bestModel, by |-> "rb_dec"]
    /\ m_bestModel # m_pModel
    /\ ~m_dumpBestStateFlag

FloorSqrt(n) == CHOOSE r \in 0..n : r * r <= n /\ n < (r + 1) * (r + 1)

\* C8 as stated: without a given group count, for every vertex count the
\* candidates 2..floor(sqrt(n)) are fitted in increasing order and the model
\* installed as live and as best model is the best model of the fitted
\* candidate of minimal AIC, the lowest K on equal AIC.
C8_MinAICInstalled ==
    [][(dpc = "install" /\ dpc' # "install") =>
          /\ dpc' = "sampling"
          /\ Len(fitted) = Larger(FloorSqrt(vcount), 1) - 1
          /\ \A i \in DOMAIN fitted : fitted[i].k = i + 1
          /\ \E i \in DOMAIN fitted :
                /\ \A j \in DOMAIN fitted : fitted[i].aic <= fitted[j].aic
                /\ \A j \in 1..(i - 1) : fitted[i].aic < fitted[j].aic
                /\ m_pModel' = fitted[i].model
                /\ m_bestModel' = fitted[i].model]_vars

\* C9: with numSamples <= 0 the driver never reaches the final dump nor
\* returns, every write of the best model answers a dump request, and once
\* in the endless run it takes chain steps, updates the best model and
\* checks the dump flag again and again.
C9_EndlessRun ==
    /\ [](args.numSamples <= 0 =>
             /\ dpc \notin {"final_dump", "return", "returned"}
             /\ rbRet # "final_dump"
             /\ \A i \in DOMAIN output : output[i].by = "rb_dec")
    /\ [](rbRet = "endless" => <>(dpc = "mcmc_decide"))
    /\ [](rbRet = "endless" => <>(dpc = "rb_best"))
    /\ [](rbRet = "endless" => <>(dpc = "rb_check"))

\* in the endless run a dump request has been answered and the chain steps on
C9_Witness ==
    /\ args.numSamples <= 0
    /\ rbRet = "endless"
    /\ dpc = "mcmc_decide"
    /\ output # <<>>

(***************************************************************************)
(* Claims about GreedyStrategy on arbitrary graphs (SpecGreedy)            *)
(***************************************************************************)
LogLOf(ty) == getLogLikelihood(vcount, edges, numTypes, ty)

\* C1: every call of step leaves the log-likelihood of the model greater
\* than or equal to what it was before the call.
C1_LogLNonDecreasing ==
    ret # "none" => ~LogLess(LogLOf(types), LogLOf(before))

\* C2: once optimize has returned, the next call (a step or a second
\* optimize) leaves the types as optimize left them, and a step returns
\* false.
C2_FixedPointAfterOptimize ==
    /\ \A i \in 1..(Len(calls) - 1) :
          calls[i].op = "optimize" =>
              /\ calls[i + 1].types = calls[i].types
              /\ calls[i + 1].ret = FALSE
    /\ (Len(calls) > 0 /\ calls[Len(calls)].op = "optimize") =>
          types = calls[Len(calls)].types

\* optimize moved some vertex, returned, and step was called after it
C2_Witness ==
    /\ Len(calls) >= 2
    /\ calls[1].op = "optimize"
    /\ calls[2].op = "step"
    /\ numTypes >= 2
    /\ \E v \in Vertices(vcount) : calls[1].types[v] # 0

\* the reference step: every vertex scored against the snapshot ty
ReferenceNewTypes(n, es, k, ty) ==
    LET logP == LogOdds(getProbabilities(n, es, k, ty), k)
    IN  [i \in Vertices(n) |->
            max_element(MatrixTimesVector(logP,
                Vec(LAMBDA b :
                    Cardinality({j \in neighbors(es, n, i) : ty[j] = b}), k), k), k)]

\* a sequential pass: vertex i sees the new types of the vertices before it
RECURSIVE SequentialLoop(_, _, _, _, _, _, _)
SequentialLoop(n, es, k, ty, logP, i, newTypes) ==
    IF i >= n THEN newTypes
    ELSE SequentialLoop(n, es, k, ty, logP, i + 1,
            [newTypes EXCEPT ![i] =
                max_element(MatrixTimesVector(logP,
                    Vec(LAMBDA b :
                        Cardinality({j \in neighbors(es, n, i) :
                            getTypeSequential(ty, newTypes, i, j) = b}), k), k), k)])

SequentialNewTypes(n, es, k, ty) ==
    SequentialLoop(n, es, k, ty, LogOdds(getProbabilities(n, es, k, ty), k), 0,
                   [v \in Vertices(n) |-> 0])

\* C10: step is a synchronous batch update: the types it leaves are those of
\* the reference step that scores every vertex against the assignment as it
\* was at the start of the call, and it returns whether they differ from it.
C10_StepIsBatchUpdate ==
    ret # "none" =>
        /\ types = ReferenceNewTypes(vcount, edges, numTypes, before)
        /\ ret = IF types # before THEN "true" ELSE "false"

\* a step whose result differs from that of the sequential pass
C10_Witness ==
    /\ ret # "none"
    /\ types = ReferenceNewTypes(vcount, edges, numTypes, before)
    /\ types # SequentialNewTypes(vcount, edges, numTypes, before)

(***************************************************************************)
(* Claims about the greedy tests (SpecTests)                               *)
(***************************************************************************)
\* C3: on the two 5-rings with types[i] = i div 5, optimize leaves the
\* assignment unchanged, and after one vertex is moved to the other block
\* optimize ends (the step after at most one sweep finds nothing to change)
\* with the assignment types[i] = i div 5 again.
C3_TwoRingsRestored ==
    test = "two_rings" =>
        /\ tpc \notin {"return1", "return2"}
        /\ tpc \in {"optimize1", "check1", "check2", "return0"} => types = testTypes
        /\ tpc = "optimize2" =>
              \/ types = testTypes
              \/ NewTypes(vcount, edges, numTypes, types) = testTypes

\* test_two_rings returned 0 after optimize moved the perturbed vertex back
C3_Witness ==
    /\ test = "two_rings"
    /\ tpc = "return0"
    /\ Cardinality(Mutated(startTypes)) = 1
    /\ ret = "false"
    /\ types = testTypes

\* C4: on the four 4-cliques less one edge each with types[i] = i div 4,
\* optimize leaves the assignment unchanged, and after one vertex of each
\* clique is given any type, optimize on the mutated assignment ends with
\* types[i] = i div 4 again.
C4_FourCliquesRestored ==
    test = "four_almost_cliques" =>
        /\ tpc \notin {"return1", "return2"}
        /\ tpc \in {"check1", "check2", "return0"} => types = testTypes

(***************************************************************************)
(* Claims about the scores of GreedyStrategy::step (SpecGreedy)            *)
(***************************************************************************)
\* the kind of an extended real c + log(num/den): a zero factor of num is
\* log(0), a zero factor of den is -log(0)
HasZero(fs) == \E i \in DOMAIN fs : fs[i] = 0
KindOf(x) == IF HasZero(x.num) /\ HasZero(x.den) THEN "nan"
             ELSE IF HasZero(x.num) THEN "-inf"
             ELSE IF HasZero(x.den) THEN "+inf"
             ELSE "finite"

\* x = y as doubles; two finite values c + log(r) with rational r are equal
\* only when their constants and their ratios are
ExtEq(x, y) ==
    /\ KindOf(x) = KindOf(y)
    /\ KindOf(x) # "nan"
    /\ KindOf(x) = "finite" => LogEq(x, y)

\* the log-odds matrix of P: log(P[a][b]) - log(1 - P[a][b]), P[a][b] = e/m
TrueLogOdds(P, k) ==
    Vec(LAMBDA a : Vec(LAMBDA b :
        LogSub(LogOf(At(At(P, a), b)[1], At(At(P, a), b)[2]),
               LogOf(At(At(P, a), b)[2] - At(At(P, a), b)[1], At(At(P, a), b)[2])),
        k), k)

\* C11: the matrix that step builds from logP and log1P is the log-odds
\* matrix log(P) - log(1 - P) of the model's probabilities, and the score of
\* block b for vertex i is the inner product of i's neighbour counts by
\* block with row b of the log-odds matrix.
C11_ScoresAreLogOdds ==
    ret # "none" =>
        LET P == getProbabilities(vcount, edges, numTypes, before)
            built == LogOdds(P, numTypes)
            odds == TrueLogOdds(P, numTypes)
        IN  /\ \A a, b \in 0..(numTypes - 1) :
                  ExtEq(At(At(built, a), b), At(At(odds, a), b))
            /\ \A i \in Vertices(vcount) : \A b \in 0..(numTypes - 1) :
                  LET x == NeiCountByType(vcount, edges, numTypes, before, before, i)
                  IN  ExtEq(At(MatrixTimesVector(built, x, numTypes), b),
                            At(MatrixTimesVector(odds, x, numTypes), b))

\* the scores of vertex i: the product of the matrix step builds with i's
\* neighbour counts by block in the assignment ty
Scores(n, es, k, ty, i) ==
    MatrixTimesVector(LogOdds(getProbabilities(n, es, k, ty), k),
        Vec(LAMBDA b : Cardinality({j \in neighbors(es, n, i) : ty[j] = b}), k), k)

\* C12: a step assigns every vertex a block in [0, K) whose score is the
\* maximum, and among the blocks that share the maximum the lowest index; an
\* isolated vertex is assigned block 0.
C12_FirstMaximum ==
    ret # "none" =>
        \A i \in Vertices(vcount) :
            LET s == Scores(vcount, edges, numTypes, before, i)
            IN  /\ types[i] \in 0..(numTypes - 1)
                /\ \A b \in 0..(numTypes - 1) : ~LogLess(At(s, types[i]), At(s, b))
                /\ \A b \in 0..(types[i] - 1) : LogLess(At(s, b), At(s, types[i]))
                /\ neighbors(edges, vcount, i) = {} => types[i] = 0

\* a step moved a vertex that has neighbours from block 1 to block 0 because
\* both blocks share the maximum score
C12_Witness ==
    /\ ret = "true"
    /\ numTypes = 2
    /\ \E i \in Vertices(vcount) :
           LET s == Scores(vcount, edges, numTypes, before, i)
           IN  /\ neighbors(edges, vcount, i) # {}
               /\ before[i] = 1 /\ types[i] = 0
               /\ ~LogLess(At(s, 0), At(s, 1)) /\ ~LogLess(At(s, 1), At(s, 0))

\* C14: for every graph, every K and every starting assignment, optimize
\* terminates: a running optimize eventually returns, it does not cycle
\* forever between assignments.
C14_OptimizeTerminates == (gpc = "optimize") ~> (gpc = "idle")

(***************************************************************************)
(* Claims about the sample blocks and the dump requests (SpecDriver)       *)
(***************************************************************************)
\* C13: every block handed to ConvergenceCriterion::check holds exactly
\* blockSize values: the log-likelihoods after each of the chain steps taken
\* since the previous check (or since the chain of the fit started), in step
\* order, with no filler value and no sample of an earlier block; so the
\* chain advanced by exactly blockSize steps.
C13_CheckedBlock ==
    dpc = "conv_check" =>
        /\ Len(samples) = args.blockSize
        /\ Len(chain) = args.blockSize
        /\ samples = chain

\* a block of two different samples is handed to check
C13_Witness ==
    /\ dpc = "conv_check"
    /\ args.blockSize = 2
    /\ chain = <<1, 0>>
    /\ samples = <<1, 0>>

\* the moments of a dump request that the claim names: the greedy
\* initialization, the chain steps of runBlock, and dumpBestState
DumpRequestMoments ==
    {"greedy", "rb_enter", "rb_loop", "mcmc_propose", "mcmc_decide", "rb_best",
     "rb_check", "rb_dec", "dump_write", "dump_clear"}

\* C15: no dump request is lost: in a run that leaves the chain running,
\* after a request made during the greedy initialization, during a chain
\* step or while dumpBestState runs, a write of the best model that starts
\* after the request eventually happens (provided the greedy initialization
\* comes to an end, see C14).
C15_NoDumpRequestLost ==
    []<>(dpc # "greedy") =>
        [](( /\ pending
             /\ ~FiniteSampling(args.numSamples)
             /\ dpc \in DumpRequestMoments ) => <>(~pending))

====
